---- MODULE Spec2Model ----
(***************************************************************************)
(* Model of the multi-agent orchestration core: WorkflowState              *)
(* (core/state.py), IntentClassifier (core/intent_classifier.py),          *)
(* SupervisorAgent and the specialist agents (agents/), the workflow       *)
(* graph (core/graph_builder.py), GracefulDegradation                      *)
(* (utils/error_handler.py) and the CLI turn (main.py).                    *)
(*                                                                         *)
(* Confidences are integers in thousandths (0.85 is 850).  Texts are       *)
(* abstracted to tagged records that keep who produced them and whether    *)
(* they are empty.                                                         *)
(***************************************************************************)
EXTENDS Integers, Sequences, FiniteSets, TLC

\* ------------------------------------------------------------------ bounds
MaxHandoffs == 2
MaxMessages == 3
MaxErrors == 6

\* --------------------------------------------------------- program constants
HighThreshold == 700
MediumThreshold == 500
FallbackErrorCount == 3
ParseFallbackConfidence == 200
ClassifyFallbackConfidence == 100
UnknownIntentFloor == 100
ConfidenceMax == 1000

\* ------------------------------------------------------------------- enums
SUPERVISOR == "supervisor"
AgentType == {"supervisor", "research", "code", "writing", "data"}
Specialists == AgentType \ {SUPERVISOR}
MessageRole == {"user", "assistant", "system"}
IntentCategory == {"research", "coding", "writing", "data_analysis", "general"}

INTENT_AGENT_MAP ==
  [c \in IntentCategory |->
     CASE c = "research" -> "research"
       [] c = "coding" -> "code"
       [] c = "writing" -> "writing"
       [] c = "data_analysis" -> "data"
       [] OTHER -> SUPERVISOR]

\* ------------------------------------------------------------------- texts
\* A text is a record <kind, by, body, notes>.  kind "none" is Python's None.
Text(kind, by, body, notes) == [kind |-> kind, by |-> by, body |-> body, notes |-> notes]
None == Text("none", "-", "", FALSE)
\* Python truthiness of an Optional[str]: None and "" are falsy.
Truthy(t) == t.kind # "none" /\ ~(t.kind = "response" /\ t.body = "" /\ ~t.notes)

RoutingMessage == Text("routing", SUPERVISOR, "routing", FALSE)
NoResponseApology == Text("no_response_apology", "graph", "apology", FALSE)
WorkflowErrorApology == Text("workflow_error_apology", "graph", "apology", FALSE)
MinimalResponse == Text("minimal_response", "degradation", "apology", FALSE)
ErrorIn(a) == Text("error_in", a, "error", FALSE)
NoFinalResponseError == Text("no_final_response", "graph", "error", FALSE)
WorkflowExecutionError == Text("workflow_execution_error", "graph", "error", FALSE)

\* ------------------------------------------------------------ WorkflowState
EmptyDict == [k \in {} |-> None]
DictSet(d, k, v) == [x \in (DOMAIN d) \cup {k} |-> IF x = k THEN v ELSE d[x]]
DictGet(d, k, default) == IF k \in DOMAIN d THEN d[k] ELSE default

\* A user input is abstracted to what the handlers read off it: the set of
\* specialists whose keyword list matches it, and whether it names a specific
\* task type (so that the handlers' task analysis is not the general one).
UserInput(kw, specific) == [kw |-> kw, specific |-> specific]
EmptyInput == UserInput({}, FALSE)

NewWorkflowState ==
  [messages |-> <<>>,
   current_user_input |-> EmptyInput,
   current_agent |-> SUPERVISOR,
   detected_intent |-> "None",
   intent_confidence |-> 0,
   handoff_history |-> <<>>,
   error_count |-> 0,
   last_error |-> None,
   fallback_mode |-> FALSE,
   task_context |-> EmptyDict,
   intermediate_results |-> EmptyDict,
   should_continue |-> TRUE,
   final_response |-> None]

add_message(s, role, content, agent_type) ==
  [s EXCEPT !.messages =
     Append(@, [role |-> role, content |-> content, agent_type |-> agent_type])]

\* add_handoff that keeps only the newest record in the ledger.
add_handoff_rewriting(s, from_agent, to_agent, intent, confidence, reasoning) ==
  [s EXCEPT !.handoff_history =
     <<[from_agent |-> from_agent, to_agent |-> to_agent,
        intent |-> intent, confidence |-> confidence,
        reasoning |-> reasoning]>>]

add_handoff(s, from_agent, to_agent, intent, confidence, reasoning) ==
  [s EXCEPT !.handoff_history =
     Append(@, [from_agent |-> from_agent, to_agent |-> to_agent,
                intent |-> intent, confidence |-> confidence,
                reasoning |-> reasoning])]

\* record_error that recomputes fallback_mode from the count alone.
record_error_recomputing(s, error_message) ==
  LET n == s.error_count + 1 IN
  [s EXCEPT !.error_count = n,
            !.last_error = error_message,
            !.fallback_mode = n >= FallbackErrorCount]

\* record_error that turns fallback_mode on one error late.
record_error_late(s, error_message) ==
  LET n == s.error_count + 1 IN
  [s EXCEPT !.error_count = n,
            !.last_error = error_message,
            !.fallback_mode = IF n > FallbackErrorCount THEN TRUE ELSE @]

\* record_error that counts every error twice.
record_error_twice(s, error_message) ==
  LET n == s.error_count + 2 IN
  [s EXCEPT !.error_count = n,
            !.last_error = error_message,
            !.fallback_mode = IF n >= FallbackErrorCount THEN TRUE ELSE @]

record_error(s, error_message) ==
  LET n == s.error_count + 1 IN
  [s EXCEPT !.error_count = n,
            !.last_error = error_message,
            !.fallback_mode = IF n >= FallbackErrorCount THEN TRUE ELSE @]

\* reset_for_new_input that forgets to hand the turn back to the Router.
reset_keeps_current_agent(s, user_input) ==
  [s EXCEPT !.current_user_input = user_input,
            !.detected_intent = "None",
            !.intent_confidence = 0,
            !.should_continue = TRUE,
            !.final_response = None,
            !.task_context = EmptyDict,
            !.intermediate_results = EmptyDict]

\* reset_for_new_input that also forgets the errors recorded so far.
reset_clearing_errors(s, user_input) ==
  [s EXCEPT !.current_user_input = user_input,
            !.current_agent = SUPERVISOR,
            !.detected_intent = "None",
            !.intent_confidence = 0,
            !.should_continue = TRUE,
            !.final_response = None,
            !.task_context = EmptyDict,
            !.intermediate_results = EmptyDict,
            !.error_count = 0,
            !.last_error = None,
            !.fallback_mode = FALSE]

reset_for_new_input(s, user_input) ==
  [s EXCEPT !.current_user_input = user_input,
            !.current_agent = SUPERVISOR,
            !.detected_intent = "None",
            !.intent_confidence = 0,
            !.should_continue = TRUE,
            !.final_response = None,
            !.task_context = EmptyDict,
            !.intermediate_results = EmptyDict]

\* One rendered line of get_conversation_context: the role in upper case,
\* the handler in brackets when the message has one, the content.
ContextLine(msg) ==
  [role_str |-> IF msg.role = "user" THEN "USER"
                ELSE IF msg.role = "assistant" THEN "ASSISTANT" ELSE "SYSTEM",
   agent_str |-> IF msg.agent_type = "None" THEN "" ELSE msg.agent_type,
   content |-> msg.content]

\* messages[-max_messages:] for max_messages >= 0: -0 is 0, so the slice
\* starts at the first message.
RecentMessages(messages, max_messages) ==
  IF max_messages = 0 \/ max_messages >= Len(messages) THEN messages
  ELSE SubSeq(messages, Len(messages) - max_messages + 1, Len(messages))

get_conversation_context(s, max_messages) ==
  LET recent_messages ==
        IF s.messages # <<>> THEN RecentMessages(s.messages, max_messages)
        ELSE <<>>
  IN [i \in 1..Len(recent_messages) |-> ContextLine(recent_messages[i])]

\* -------------------------------------------------------- IntentClassifier
\* The backend's raw classification text is a sequence of tokens: junk text,
\* an opening brace, a closing brace, or the content of a JSON object.
Num(v) == [k |-> "num", v |-> v]
NonNumeric == [k |-> "str", v |-> 0]
Null == [k |-> "null", v |-> 0]
MissingKey == [k |-> "missing", v |-> 0]
Tok(t) == [t |-> t, intent |-> "-", confidence |-> MissingKey, reasoning |-> FALSE]
Junk == Tok("junk")
LB == Tok("lb")
RB == Tok("rb")
Body(intent, confidence, reasoning) ==
  [t |-> "body", intent |-> intent, confidence |-> confidence, reasoning |-> reasoning]

\* str.lower() on the intent labels the model draws.
Lower(label) ==
  CASE label = "RESEARCH" -> "research"
    [] label = "Writing" -> "writing"
    [] label = "GENERAL" -> "general"
    [] OTHER -> label

\* str.find('{') + 1 and str.rfind('}') + 1 in 1-based positions (0: absent).
Find(text, t) ==
  LET hits == {i \in 1..Len(text) : text[i].t = t} IN
  IF hits = {} THEN 0 ELSE CHOOSE i \in hits : \A j \in hits : i <= j
RFind(text, t) ==
  LET hits == {i \in 1..Len(text) : text[i].t = t} IN
  IF hits = {} THEN 0 ELSE CHOOSE i \in hits : \A j \in hits : i >= j

\* json.loads succeeds on exactly one brace, one object content, one brace.
JsonLoads(json_str) ==
  Len(json_str) = 3 /\ json_str[1].t = "lb" /\ json_str[2].t = "body"
  /\ json_str[3].t = "rb"

\* The clamp without its lower end.
ClampAbove(v) == IF v < ConfidenceMax THEN v ELSE ConfidenceMax

Clamp(v) ==
  LET lo == IF v < ConfidenceMax THEN v ELSE ConfidenceMax IN
  IF lo > 0 THEN lo ELSE 0

\* A parse fallback that guesses a specialist's intent with high confidence.
ParseFallbackGuessing ==
  [raises |-> FALSE, intent |-> "coding",
   confidence |-> HighThreshold, reasoning |-> "parse_failed"]

ParseFallback ==
  [raises |-> FALSE, intent |-> "general",
   confidence |-> ParseFallbackConfidence, reasoning |-> "parse_failed"]

\* raises: an exception other than JSONDecodeError, ValueError, KeyError
\* leaves the function (float(None) is a TypeError).
ValidateResult(result) ==
  IF result.intent # "-" /\ result.confidence.k # "missing" /\ result.reasoning
  THEN CASE result.confidence.k = "num" ->
              [raises |-> FALSE, intent |-> result.intent,
               confidence |-> Clamp(result.confidence.v),
               reasoning |-> "model"]
         [] result.confidence.k = "str" -> ParseFallback
         [] OTHER -> [ParseFallback EXCEPT !.raises = TRUE]
  ELSE ParseFallback

ParseJson(json_str) ==
  IF ~JsonLoads(json_str) THEN ParseFallback ELSE ValidateResult(json_str[2])

ParseBlock(response, start_idx, end_idx) ==
  IF start_idx # 0 /\ end_idx >= start_idx
  THEN ParseJson(SubSeq(response, start_idx, end_idx))
  ELSE ParseFallback

_parse_classification_response(response) ==
  ParseBlock(response, Find(response, "lb"), RFind(response, "rb"))

Max(a, b) == IF a >= b THEN a ELSE b

ClassifyFallback ==
  [intent |-> "general", confidence |-> ClassifyFallbackConfidence,
   reasoning |-> "classification_failed", agent_type |-> SUPERVISOR]

\* The mapping that passes an unknown label's confidence through.
MapIntentUnattenuated(result) ==
  IF result.raises THEN ClassifyFallback
  ELSE IF Lower(result.intent) \in IntentCategory
       THEN [intent |-> result.intent, confidence |-> result.confidence,
             reasoning |-> result.reasoning,
             agent_type |-> INTENT_AGENT_MAP[Lower(result.intent)]]
       ELSE [intent |-> result.intent, confidence |-> result.confidence,
             reasoning |-> result.reasoning \o "+unknown_intent",
             agent_type |-> SUPERVISOR]

MapIntent(result) ==
  IF result.raises THEN ClassifyFallback
  ELSE IF Lower(result.intent) \in IntentCategory
       THEN [intent |-> result.intent, confidence |-> result.confidence,
             reasoning |-> result.reasoning,
             agent_type |-> INTENT_AGENT_MAP[Lower(result.intent)]]
       ELSE [intent |-> result.intent,
             confidence |-> Max(UnknownIntentFloor, (result.confidence * 5) \div 10),
             reasoning |-> result.reasoning \o "+unknown_intent",
             agent_type |-> SUPERVISOR]

\* backend: [kind |-> "error"] when the language-model call raises, else
\* [kind |-> "text", text |-> tokens].
classify_intent(backend) ==
  IF backend.kind = "error" THEN ClassifyFallback
  ELSE MapIntent(_parse_classification_response(backend.text))

\* The backend outputs the model draws.
RawLabels == {"RESEARCH", "coding", "Writing", "data_analysis", "GENERAL", "debugging"}
RawNums == {-500, 400, 500, 700, 1500}
PlainBodies == {Body(l, Num(v), TRUE) : l \in RawLabels, v \in RawNums}
OddBodies ==
  {Body("coding", c, TRUE) : c \in {NonNumeric, Null, MissingKey}}
  \cup {Body("-", Num(700), TRUE), Body("coding", Num(700), FALSE)}
BackendTexts ==
  {<<LB, b, RB>> : b \in PlainBodies \cup OddBodies}
  \cup {<<Junk, LB, Body("coding", Num(700), TRUE), RB, Junk>>,
        <<LB, Body("coding", Num(700), TRUE), RB, Junk, RB>>,
        <<LB, Body("coding", Num(700), TRUE), RB, LB, Body("RESEARCH", Num(400), TRUE), RB>>,
        <<Junk>>, <<>>, <<LB, Body("coding", Num(700), TRUE)>>, <<RB, Junk, LB>>}
BackendResponses ==
  {[kind |-> "error", text |-> <<>>]}
  \cup {[kind |-> "text", text |-> t] : t \in BackendTexts}

\* ------------------------------------------------------------------ agents
\* What one invocation of a handler's processing meets: the language-model
\* call returns text, returns an empty text, raises, or the processing itself
\* raises (for instance on a None completion).
Outcomes == {"text", "empty", "llm_error", "fail"}

\* BaseAgent.generate_response: a backend exception becomes an apology text.
generate_response(outcome) ==
  CASE outcome = "text" -> "text"
    [] outcome = "empty" -> ""
    [] OTHER -> "llm_apology"

AgentName(a) == a
FallbackResponse(a) == Text("fallback", a, "fallback", FALSE)

\* The per-turn history kept beside the state: which handlers' processing
\* ran, what the Router decided, which failures were caught.
NewTurn(s) ==
  [start_error_count |-> s.error_count,
   start_handoffs |-> Len(s.handoff_history),
   invoked |-> <<>>,
   decided |-> "none",
   d_target |-> SUPERVISOR,
   d_confidence |-> 0,
   d_degraded |-> FALSE,
   d_available |-> {},
   declined |-> FALSE,
   failed |-> <<>>,
   llm_failures |-> 0,
   classified |-> 0]

Ctx(s, g) == [s |-> s, g |-> g]

update_state_with_response(s, a, response) ==
  LET s1 == add_message(s, "assistant", response, a) IN
  [s1 EXCEPT !.final_response = response,
             !.intermediate_results = DictSet(@, a \o "_response", response)]

handle_error(c, a) ==
  LET s1 == record_error(c.s, ErrorIn(AgentName(a))) IN
  Ctx(add_message(s1, "assistant", FallbackResponse(a), a),
      [c.g EXCEPT !.failed = Append(@, a)])

can_handle_request(a, user_input) == a \in user_input.kw

TaskKind(user_input) == IF user_input.specific THEN "specific" ELSE "general"

\* The keys each specialist writes to task_context.
TaskContextOf(a, user_input) ==
  CASE a = "code" ->
         [k \in {"coding_task_type", "programming_language", "code_blocks"} |->
            IF k = "code_blocks" THEN "extracted" ELSE TaskKind(user_input)]
    [] a = "research" ->
         [k \in {"research_type", "sources_consulted"} |->
            IF k = "sources_consulted" THEN "extracted" ELSE TaskKind(user_input)]
    [] a = "writing" ->
         [k \in {"writing_type", "target_audience"} |-> TaskKind(user_input)]
    [] OTHER ->
         [k \in {"analysis_type", "data_context"} |-> TaskKind(user_input)]

DictUpdate(d, e) ==
  [k \in (DOMAIN d) \cup (DOMAIN e) |-> IF k \in DOMAIN e THEN e[k] ELSE d[k]]

\* Whether postprocess_response appends a note to the generated text; it
\* reads the task_context left by an earlier invocation.
postprocess_notes(a, s) ==
  CASE a = "research" -> TRUE
    [] a = "code" ->
         DictGet(s.task_context, "coding_task_type", "general") # "general"
         \/ DictGet(s.task_context, "programming_language", "general") # "general"
    [] a = "writing" ->
         DictGet(s.task_context, "writing_type", "general") # "general"
         \/ DictGet(s.task_context, "target_audience", "general") # "general"
    [] OTHER ->
         DictGet(s.task_context, "analysis_type", "general") # "general"
         \/ DictGet(s.task_context, "data_context", "general") = "general"

postprocess_response(a, s, response) ==
  Text("response", a, response, postprocess_notes(a, s))

\* ResearchAgent/CodeAgent/WritingAgent/DataAgent.process_request
specialist_process_request(c, a, outcome) ==
  LET g1 == [c.g EXCEPT !.invoked = Append(@, a),
                        !.llm_failures = IF outcome = "llm_error" THEN @ + 1 ELSE @]
  IN
  IF outcome = "fail" THEN handle_error(Ctx(c.s, g1), a)
  ELSE LET formatted == postprocess_response(a, c.s, generate_response(outcome))
           s1 == [c.s EXCEPT !.task_context =
                     DictUpdate(@, TaskContextOf(a, c.s.current_user_input))]
       IN Ctx(update_state_with_response(s1, a, formatted), g1)

\* ---------------------------------------------------------- SupervisorAgent
_handle_directly(c, outcome) ==
  LET g1 == [c.g EXCEPT !.invoked = Append(@, SUPERVISOR),
                        !.llm_failures = IF outcome = "llm_error" THEN @ + 1 ELSE @]
  IN
  IF outcome = "fail" THEN handle_error(Ctx(c.s, g1), SUPERVISOR)
  ELSE Ctx(update_state_with_response(
             c.s, SUPERVISOR,
             Text("response", SUPERVISOR, generate_response(outcome), FALSE)),
           g1)

\* The routing decision with the medium threshold applied whether or not the
\* state is degraded.
should_route_ignoring_degraded(s, target_agent, confidence, available) ==
  IF target_agent = SUPERVISOR THEN FALSE
  ELSE IF target_agent \notin available THEN FALSE
  ELSE IF confidence >= HighThreshold THEN TRUE
  ELSE IF confidence >= MediumThreshold THEN TRUE
  ELSE FALSE

_should_route_to_specialist(s, target_agent, confidence, available) ==
  IF target_agent = SUPERVISOR THEN FALSE
  ELSE IF target_agent \notin available THEN FALSE
  ELSE IF confidence >= HighThreshold THEN TRUE
  ELSE IF s.fallback_mode /\ confidence >= MediumThreshold THEN TRUE
  ELSE FALSE

_route_to_specialist(c, target_agent, out_spec, out_local) ==
  IF ~can_handle_request(target_agent, c.s.current_user_input)
  THEN _handle_directly(Ctx(c.s, [c.g EXCEPT !.declined = TRUE]), out_local)
  ELSE specialist_process_request(
         Ctx(add_message(c.s, "assistant", RoutingMessage, SUPERVISOR), c.g),
         target_agent, out_spec)

\* process_request, lines 76-87: the classification is stored and recorded.
RecordClassification(s, r) ==
  add_handoff([s EXCEPT !.detected_intent = r.intent,
                        !.intent_confidence = r.confidence],
              SUPERVISOR, r.agent_type, r.intent, r.confidence, r.reasoning)

RecordDecision(g, s, r, route, backend, available) ==
  [g EXCEPT !.classified = @ + 1,
            !.llm_failures = IF backend.kind = "error" THEN @ + 1 ELSE @,
            !.decided = IF route THEN "dispatch" ELSE "local",
            !.d_target = r.agent_type,
            !.d_confidence = r.confidence,
            !.d_degraded = s.fallback_mode,
            !.d_available = available]

\* process_request, lines 89-96.
RouteOrHandle(s, g, r, route, out_spec, out_local) ==
  IF route
  THEN _route_to_specialist(Ctx([s EXCEPT !.current_agent = r.agent_type], g),
                            r.agent_type, out_spec, out_local)
  ELSE _handle_directly(Ctx(s, g), out_local)

DecideRouting(s, g, r, backend, available, out_spec, out_local) ==
  RouteOrHandle(
    s,
    RecordDecision(g, s, r,
                   _should_route_to_specialist(s, r.agent_type, r.confidence, available),
                   backend, available),
    r,
    _should_route_to_specialist(s, r.agent_type, r.confidence, available),
    out_spec, out_local)

Classified(c, r, backend, available, out_spec, out_local) ==
  DecideRouting(RecordClassification(c.s, r), c.g, r, backend, available,
                out_spec, out_local)

supervisor_process_request(c, backend, available, out_spec, out_local) ==
  Classified(c, classify_intent(backend), backend, available, out_spec, out_local)

\* ------------------------------------------------------ GracefulDegradation
\* determine_degradation_level with the basic level reaching one error further.
determine_level_late_minimal(s) ==
  IF s.error_count = 0 THEN "full"
  ELSE IF s.error_count <= 2 THEN "limited"
  ELSE IF s.error_count <= 6 THEN "basic"
  ELSE "minimal"

determine_degradation_level(s) ==
  IF s.error_count = 0 THEN "full"
  ELSE IF s.error_count <= 2 THEN "limited"
  ELSE IF s.error_count <= 5 THEN "basic"
  ELSE "minimal"

\* apply_degradation whose basic level leaves current_agent alone.
apply_degradation_keeps_agent(s) ==
  LET target_level == determine_degradation_level(s) IN
  CASE target_level = "limited" -> [s EXCEPT !.fallback_mode = TRUE]
    [] target_level = "basic" -> [s EXCEPT !.fallback_mode = TRUE]
    [] target_level = "minimal" ->
         [s EXCEPT !.should_continue = FALSE, !.final_response = MinimalResponse]
    [] OTHER -> s

\* apply_degradation whose minimal level keeps a response already produced.
apply_degradation_keeps_response(s) ==
  LET target_level == determine_degradation_level(s) IN
  CASE target_level = "limited" -> [s EXCEPT !.fallback_mode = TRUE]
    [] target_level = "basic" ->
         [s EXCEPT !.current_agent = SUPERVISOR, !.fallback_mode = TRUE]
    [] target_level = "minimal" ->
         [s EXCEPT !.should_continue = FALSE,
                   !.final_response = IF @ = None THEN MinimalResponse ELSE @]
    [] OTHER -> s

apply_degradation(s) ==
  LET target_level == determine_degradation_level(s) IN
  CASE target_level = "limited" -> [s EXCEPT !.fallback_mode = TRUE]
    [] target_level = "basic" ->
         [s EXCEPT !.current_agent = SUPERVISOR, !.fallback_mode = TRUE]
    [] target_level = "minimal" ->
         [s EXCEPT !.should_continue = FALSE, !.final_response = MinimalResponse]
    [] OTHER -> s

\* ----------------------------------------------------------- workflow graph
_route_from_supervisor(s) ==
  IF s.current_agent = SUPERVISOR /\ Truthy(s.final_response) THEN "END"
  ELSE IF s.current_agent \in Specialists THEN s.current_agent
  ELSE SUPERVISOR

\* ------------------------------------------------------------------- state
VARIABLES
  state,             \* the WorkflowState being processed
  pc,                \* where process_user_input and the CLI turn stand
  available_agents,  \* SupervisorAgent.available_agents
  current_level,     \* GracefulDegradation.current_level
  driver,            \* who drives the core: the CLI, or a caller of the API
  turn               \* history of the current turn
vars == <<state, pc, available_agents, current_level, driver, turn>>

UserInputs ==
  {UserInput(kw, sp) : kw \in {{}, {"code"}, {"research", "data"}, Specialists},
                       sp \in BOOLEAN}

\* The inputs drawn when the Router is invoked on a session state directly.
SessionInputs == {UserInput({}, FALSE), UserInput(Specialists, TRUE)}
SessionBackends ==
  {[kind |-> "text", text |-> <<LB, Body(l, Num(v), TRUE), RB>>] :
     l \in {"coding"}, v \in {500, 700}}
SessionOutcomes == {"text", "fail"}
\* The specialists a caller of the API registers.
SessionAgents == {"code"}

\* Either a MultiAgentCLI was constructed (its graph builder registered the
\* four specialists), or a caller holds a bare SupervisorAgent and a
\* WorkflowState and invokes their operations itself.
Init ==
  /\ state = NewWorkflowState
  /\ pc = "idle"
  /\ driver \in {"cli", "session"}
  /\ available_agents = IF driver = "cli" THEN Specialists ELSE {}
  /\ current_level = "full"
  /\ turn = NewTurn(NewWorkflowState)

\* SupervisorAgent.register_agent; MultiAgentGraphBuilder.__init__ registers
\* the four specialists.
RegisterAgent(a) ==
  /\ driver = "session"
  /\ a \notin available_agents
  /\ available_agents' = available_agents \cup {a}
  /\ UNCHANGED <<state, pc, current_level, turn, driver>>

\* process_user_input going on with the state the last turn returned.
ProcessUserInputOnLastState(user_input) ==
  /\ driver = "cli"
  /\ pc = "idle"
  /\ state' = reset_for_new_input(state, user_input)
  /\ turn' = NewTurn(state')
  /\ pc' = "supervisor"
  /\ UNCHANGED <<available_agents, current_level, driver>>

\* process_user_input, up to the graph's entry node.
ProcessUserInput(user_input) ==
  /\ driver = "cli"
  /\ pc = "idle"
  /\ state' = reset_for_new_input(NewWorkflowState, user_input)
  /\ turn' = NewTurn(NewWorkflowState)
  /\ pc' = "supervisor"
  /\ UNCHANGED <<available_agents, current_level, driver>>

SupervisorNode(backend, out_spec, out_local) ==
  /\ pc = "supervisor"
  /\ \E c \in {supervisor_process_request(Ctx(state, turn), backend,
                                            available_agents, out_spec, out_local)} :
       state' = c.s /\ turn' = c.g
  /\ pc' = "route"
  /\ UNCHANGED <<available_agents, current_level, driver>>

RouteFromSupervisor ==
  /\ pc = "route"
  /\ pc' = IF _route_from_supervisor(state) \in Specialists THEN "node" ELSE "end"
  /\ UNCHANGED <<state, available_agents, current_level, turn, driver>>

SpecialistNode(outcome) ==
  /\ pc = "node"
  /\ \E c \in {specialist_process_request(Ctx(state, turn), state.current_agent,
                                            outcome)} :
       state' = c.s /\ turn' = c.g
  /\ pc' = "end"
  /\ UNCHANGED <<available_agents, current_level, driver>>

\* graph.invoke raises: process_user_input returns its initial_state, which
\* the graph's nodes never touched.
GraphFailure ==
  /\ pc \in {"supervisor", "route", "node", "end"}
  /\ LET initial_state == reset_for_new_input(NewWorkflowState, state.current_user_input)
     IN state' = [record_error(initial_state, WorkflowExecutionError)
                    EXCEPT !.final_response = WorkflowErrorApology]
  /\ turn' = [turn EXCEPT !.failed = Append(@, "graph")]
  /\ pc' = "returned"
  /\ UNCHANGED <<available_agents, current_level, driver>>

\* process_user_input returning the graph's result without ensuring a response.
FinishWorkflowUnchecked ==
  /\ pc = "end"
  /\ pc' = "returned"
  /\ UNCHANGED <<state, available_agents, current_level, turn, driver>>

\* process_user_input after graph.invoke returned.
FinishWorkflow ==
  /\ pc = "end"
  /\ state' = IF ~Truthy(state.final_response)
              THEN record_error([state EXCEPT !.final_response = NoResponseApology],
                                NoFinalResponseError)
              ELSE state
  /\ pc' = "returned"
  /\ UNCHANGED <<available_agents, current_level, turn, driver>>

\* MultiAgentCLI._process_input after process_user_input returned.
CliProcessInput ==
  /\ pc = "returned"
  /\ IF state.error_count > 0
     THEN /\ state' = apply_degradation(state)
          /\ current_level' = determine_degradation_level(state)
     ELSE UNCHANGED <<state, current_level, driver>>
  /\ pc' = "idle"
  /\ UNCHANGED <<available_agents, turn, driver>>

\* --------------------------------------- operations on a session state
ResetForNewInput(user_input) ==
  /\ driver = "session"
  /\ state' = reset_for_new_input(state, user_input)
  /\ turn' = NewTurn(state')
  /\ UNCHANGED <<pc, available_agents, current_level, driver>>

SupervisorProcessRequest(backend, out_spec, out_local) ==
  /\ driver = "session"
  /\ Len(state.handoff_history) < MaxHandoffs
  /\ Len(state.messages) + 2 <= MaxMessages
  /\ state.error_count < MaxErrors
  /\ \E c \in {supervisor_process_request(Ctx(state, turn), backend,
                                            available_agents, out_spec, out_local)} :
       state' = c.s /\ turn' = c.g
  /\ UNCHANGED <<pc, available_agents, current_level, driver>>

RecordError ==
  /\ driver = "session"
  /\ state.error_count < MaxErrors
  /\ state' = record_error(state, Text("error", "caller", "error", FALSE))
  /\ UNCHANGED <<pc, available_agents, current_level, turn, driver>>

ApplyDegradation ==
  /\ driver = "session"
  /\ state' = apply_degradation(state)
  /\ current_level' = determine_degradation_level(state)
  /\ UNCHANGED <<pc, available_agents, turn, driver>>

Next ==
  \/ \E a \in SessionAgents : RegisterAgent(a)
  \/ \E user_input \in UserInputs : ProcessUserInput(user_input)
  \/ \E backend \in BackendResponses, out_spec \in Outcomes, out_local \in Outcomes :
       SupervisorNode(backend, out_spec, out_local)
  \/ RouteFromSupervisor
  \/ \E outcome \in Outcomes : SpecialistNode(outcome)
  \/ GraphFailure
  \/ FinishWorkflow
  \/ CliProcessInput
  \/ \E user_input \in SessionInputs : ResetForNewInput(user_input)
  \/ \E backend \in SessionBackends, out_spec \in SessionOutcomes,
        out_local \in SessionOutcomes :
       SupervisorProcessRequest(backend, out_spec, out_local)
  \/ RecordError
  \/ ApplyDegradation

Spec == Init /\ [][Next]_vars

\* ------------------------------------------- single calls on one state
\* A caller that holds a SupervisorAgent with the four specialists registered
\* and one WorkflowState, and calls their operations one at a time; pc names
\* the last call and turn keeps its arguments and its result.
MaxCallHandoffs == 1
MaxCallErrors == 1
MaxWindow == 3

NoBackend == [kind |-> "none", text |-> <<>>]
NewCall(s) ==
  NewTurn(s) @@ [backend |-> NoBackend, user_input |-> EmptyInput,
                 max_messages |-> 0, context |-> <<>>]

\* The backend's classification outputs drawn for a call of process_request.
CallBodies ==
  {Body("coding", Num(v), TRUE) : v \in {-500, 500, 700, 1500}}
  \cup {Body("debugging", Num(v), TRUE) : v \in {0, 100, 200, 400, 1000, 1500}}
  \cup {Body("RESEARCH", Num(400), TRUE)}
  \cup OddBodies
CallBackends ==
  {[kind |-> "error", text |-> <<>>]}
  \cup {[kind |-> "text", text |-> <<LB, b, RB>>] : b \in CallBodies}
  \cup {[kind |-> "text", text |-> x] :
          x \in {<<Junk, LB, Body("coding", Num(700), TRUE), RB, Junk>>,
                 <<LB, Body("coding", Num(700), TRUE), RB, Junk, RB>>,
                 <<LB, Body("coding", Num(700), TRUE), RB,
                   LB, Body("RESEARCH", Num(400), TRUE), RB>>,
                 <<Junk, LB, Body("coding", MissingKey, TRUE), RB>>,
                 <<Junk>>, <<>>, <<LB, Body("coding", Num(700), TRUE)>>,
                 <<RB, Junk, LB>>}}
CallInputs == {UserInput({}, FALSE), UserInput(Specialists, TRUE)}

CallInit ==
  /\ state = NewWorkflowState
  /\ pc = "idle"
  /\ driver = "calls"
  /\ available_agents = Specialists
  /\ current_level = "full"
  /\ turn = NewCall(NewWorkflowState)

CallAddMessage(role, agent_type) ==
  /\ Len(state.messages) < MaxMessages
  /\ state' = add_message(state, role, Text("message", role, "text", FALSE), agent_type)
  /\ turn' = NewCall(state')
  /\ pc' = "add_message"
  /\ UNCHANGED <<available_agents, current_level, driver>>

CallRecordError ==
  /\ state.error_count < MaxCallErrors
  /\ state' = record_error(state, Text("error", "caller", "error", FALSE))
  /\ turn' = NewCall(state')
  /\ pc' = "record_error"
  /\ UNCHANGED <<available_agents, current_level, driver>>

CallApplyDegradation ==
  /\ state' = apply_degradation(state)
  /\ current_level' = determine_degradation_level(state)
  /\ turn' = NewCall(state')
  /\ pc' = "apply_degradation"
  /\ UNCHANGED <<available_agents, driver>>

CallResetForNewInput(user_input) ==
  /\ state' = reset_for_new_input(state, user_input)
  /\ turn' = [NewCall(state') EXCEPT !.user_input = user_input]
  /\ pc' = "reset_for_new_input"
  /\ UNCHANGED <<available_agents, current_level, driver>>

CallProcessRequest(backend) ==
  /\ pc = "reset_for_new_input"
  /\ Len(state.handoff_history) < MaxCallHandoffs
  /\ Len(state.messages) + 2 <= MaxMessages
  /\ \E c \in {supervisor_process_request(
                 Ctx(state, [NewCall(state) EXCEPT !.backend = backend]),
                 backend, available_agents, "text", "text")} :
       state' = c.s /\ turn' = c.g
  /\ pc' = "process_request"
  /\ UNCHANGED <<available_agents, current_level, driver>>

CallGetConversationContext(max_messages) ==
  /\ turn' = [NewCall(state) EXCEPT
                !.max_messages = max_messages,
                !.context = get_conversation_context(state, max_messages)]
  /\ pc' = "get_conversation_context"
  /\ UNCHANGED <<state, available_agents, current_level, driver>>

CallNext ==
  \/ \E role \in {"user"}, agent_type \in {"None"} : CallAddMessage(role, agent_type)
  \/ \E role \in {"assistant"}, agent_type \in {SUPERVISOR} :
       CallAddMessage(role, agent_type)
  \/ CallRecordError
  \/ CallApplyDegradation
  \/ \E user_input \in CallInputs : CallResetForNewInput(user_input)
  \/ \E backend \in CallBackends : CallProcessRequest(backend)
  \/ \E max_messages \in 0..MaxWindow : CallGetConversationContext(max_messages)

CallSpec == CallInit /\ [][CallNext]_vars

\* ------------------------------------------------------------ turn history
Range(seq) == {seq[i] : i \in 1..Len(seq)}
Last(seq) == seq[Len(seq)]
\* The handlers whose processing ran in the current turn.
SpecialistsRun == Range(turn.invoked) \ {SUPERVISOR}
HandledLocally == SUPERVISOR \in Range(turn.invoked)
GraphFailed == "graph" \in Range(turn.failed)
\* process_user_input has returned and its graph ran to its end.
Returned == pc = "returned" /\ ~GraphFailed
TaggedMessages(a) ==
  {i \in 1..Len(state.messages) :
     state.messages[i].role = "assistant" /\ state.messages[i].agent_type = a}

\* ------------------------------------------------------------------ claims

\* C1: whatever fails inside a turn (classifier, Router, specialist, graph
\* execution), process_user_input returns a state whose final_response is
\* non-empty.
C1_FinalResponseNonEmpty ==
  pc = "returned" => Truthy(state.final_response)

C1_Witness ==
  /\ pc = "returned"
  /\ Len(turn.failed) >= 2
  /\ turn.llm_failures >= 1
  /\ Truthy(state.final_response)

\* C2: on return of a turn, either the Router handled the request locally and
\* no specialist processed it, or the Router did not and exactly one
\* specialist processed it.
C2_ExactlyOneHandler ==
  Returned =>
    \/ HandledLocally /\ SpecialistsRun = {}
    \/ ~HandledLocally /\ Cardinality(SpecialistsRun) = 1

\* C3: the Router decides to dispatch exactly when the target is not the
\* Router, the target is registered, and the confidence is at least 0.7, or at
\* least 0.5 with degraded set.
C3_DispatchDecision ==
  turn.decided # "none" =>
    ((turn.decided = "dispatch") <=>
       /\ turn.d_target # SUPERVISOR
       /\ turn.d_target \in turn.d_available
       /\ \/ turn.d_confidence >= 700
          \/ turn.d_degraded /\ turn.d_confidence >= 500)

C3_Witness ==
  /\ turn.decided = "dispatch"
  /\ turn.d_degraded
  /\ turn.d_confidence < 700

\* C4: when the chosen specialist declines the request, no specialist's
\* processing runs in that turn and the returned final_response is the
\* Router's own response.
C4_DeclineHandledLocally ==
  (Returned /\ turn.declined) =>
    /\ SpecialistsRun = {}
    /\ state.final_response.by = SUPERVISOR

\* C5: the state a handler's processing returns has final_response set, on
\* the success path and on the fallback path.
C5_HandlerSetsFinalResponse ==
  (pc \in {"route", "end"} /\ turn.invoked # <<>>) => state.final_response # None

\* C6: a turn dispatched to a specialist appends exactly one assistant
\* message tagged with that specialist.
C6_OneTaggedMessage ==
  (Returned /\ turn.decided = "dispatch" /\ ~turn.declined) =>
    Cardinality(TaggedMessages(turn.d_target)) = 1

\* C7: a turn in which exactly one failure is caught returns with
\* error_count one higher than at its start.
C7_OneIncrementPerFailure ==
  (pc = "returned" /\ Len(turn.failed) = 1) =>
    state.error_count = turn.start_error_count + 1

\* C8: a failed language-model call, in classification or in a handler's
\* response generation, increments error_count exactly once.
C8_BackendFailureCounted ==
  (pc = "returned" /\ turn.llm_failures = 1 /\ turn.failed = <<>>) =>
    state.error_count = turn.start_error_count + 1

\* C9: when a component fails, the returned state's last_error describes that
\* component's failure and final_response is that component's fallback.
C9_FallbackOfFailedComponent ==
  (pc = "returned" /\ Len(turn.failed) = 1) =>
    IF turn.failed[1] = "graph"
    THEN /\ state.last_error = WorkflowExecutionError
         /\ state.final_response = WorkflowErrorApology
    ELSE /\ state.last_error = ErrorIn(turn.failed[1])
         /\ state.final_response = FallbackResponse(turn.failed[1])

C11_HandoffsWithinMaximum ==
  \E maximum \in 0..(MaxHandoffs - 1) :
    Len(state.handoff_history) <= maximum

\* The records of the ledger are kept, in place and unchanged, by a step.
C12_LedgerKept ==
  /\ Len(state'.handoff_history) >= Len(state.handoff_history)
  /\ SubSeq(state'.handoff_history, 1, Len(state.handoff_history))
       = state.handoff_history

\* A step that hands a fresh state object to the turn: process_user_input
\* constructing its WorkflowState, or returning its untouched initial_state.
FreshStateObject ==
  pc' = "supervisor" \/ (GraphFailed' /\ ~GraphFailed)

C13_ErrorsNeverDecrease ==
  [][~FreshStateObject =>
       /\ state'.error_count >= state.error_count
       /\ state.fallback_mode => state'.fallback_mode]_vars

\* Errors went on being recorded in the turn after the limited level had
\* turned fallback_mode on.
C13_Witness ==
  /\ turn.start_error_count = 0
  /\ current_level = "limited"
  /\ state.error_count >= FallbackErrorCount
  /\ state.fallback_mode

\* The message of the error a step records: a handler's or the workflow's
\* failure, the entry point's missing response, or the caller's own message.
C14_RecordedMessage ==
  IF Len(turn'.failed) > Len(turn.failed)
  THEN IF Last(turn'.failed) = "graph"
       THEN WorkflowExecutionError
       ELSE ErrorIn(AgentName(Last(turn'.failed)))
  ELSE IF driver = "cli" THEN NoFinalResponseError
  ELSE Text("error", "caller", "error", FALSE)

\* C14: fallback_mode is on whenever error_count >= 3 (the third recorded
\* error turns it on), and last_error is the message of the most recently
\* recorded error; a state without errors has no last_error.
C14_FallbackFromThirdError ==
  /\ [](state.error_count >= FallbackErrorCount => state.fallback_mode)
  /\ [](state.error_count = 0 => state.last_error = None)
  /\ [][IF \/ Len(turn'.failed) > Len(turn.failed)
           \/ state'.error_count > state.error_count
        THEN state'.last_error = C14_RecordedMessage
        ELSE FreshStateObject \/ state'.last_error = state.last_error]_vars

\* The third error of an entry-point turn, recorded for the missing
\* response, turned fallback_mode on before any degradation was applied.
C14_Witness ==
  /\ pc = "returned"
  /\ state.error_count = FallbackErrorCount
  /\ state.fallback_mode
  /\ state.last_error = NoFinalResponseError
  /\ Len(turn.failed) = 2

\* C15 as claimed: within one turn of the entry point, once final_response
\* has been assigned no later step of the turn assigns it again.
C15_FinalResponseSetOnce ==
  [][(driver = "cli" /\ ~FreshStateObject /\ state.final_response # None) =>
       state'.final_response = state.final_response]_vars

\* C16 as claimed: once the state is terminal (final_response non-empty, or
\* should_continue false), a step classifies nothing, appends no handoff
\* record and invokes no handler.
C16_TerminalNotReprocessed ==
  [][(Truthy(state.final_response) \/ ~state.should_continue) =>
       /\ turn'.classified <= turn.classified
       /\ Len(state'.handoff_history) <= Len(state.handoff_history)
       /\ Len(turn'.invoked) <= Len(turn.invoked)]_vars

\* C17 as claimed: a state returned with final_response set has
\* should_continue false.
C17_AnswerStopsContinue ==
  (pc = "returned" /\ state.final_response # None) => ~state.should_continue

\* The level table: full for 0, limited for 1 and 2, basic for 3 to 5,
\* minimal from 6 on.
C18_LevelOf(error_count) ==
  CASE error_count = 0 -> "full"
    [] error_count \in 1..2 -> "limited"
    [] error_count \in 3..5 -> "basic"
    [] OTHER -> "minimal"

\* C18: the degradation level is the table's value for error_count, whatever
\* the other fields of the state hold and whatever level was applied before.
C18_LevelFromErrorCount ==
  /\ [](determine_degradation_level(state) = C18_LevelOf(state.error_count))
  /\ [][current_level' # current_level =>
          current_level' = C18_LevelOf(state.error_count)]_vars

\* The controller was applied to a state holding six errors or more.
C18_Witness ==
  /\ current_level = "minimal"
  /\ state.error_count >= 6
  /\ state.fallback_mode

C20_MinimalOverwrites ==
  [][(state.error_count >= 6 /\ current_level' # current_level) =>
       /\ ~state'.should_continue
       /\ state'.final_response = MinimalResponse]_vars

\* A handler had answered in the turn before the controller replaced its
\* response.
C20_Witness ==
  /\ current_level = "minimal"
  /\ state.final_response = MinimalResponse
  /\ ~state.should_continue
  /\ turn.invoked # <<>>
  /\ turn.failed = <<>>

\* ------------------------------------------ the backend's raw output, read
\* A well-formed structured block stands at place i of the text.
BlockAt(text, i) ==
  /\ i + 2 <= Len(text)
  /\ text[i].t = "lb" /\ text[i + 1].t = "body" /\ text[i + 2].t = "rb"
\* The content of the first well-formed block of the text, or none.
NoBlock == Tok("none")
FirstBlock(text) ==
  LET hits == {i \in 1..Len(text) : BlockAt(text, i)} IN
  IF hits = {} THEN NoBlock
  ELSE text[(CHOOSE i \in hits : \A j \in hits : i <= j) + 1]
\* The first block of the output handed to the last process_request.
RawBlock ==
  IF turn.backend.kind = "text" THEN FirstBlock(turn.backend.text) ELSE NoBlock
HasAllKeys(block) ==
  block.intent # "-" /\ block.confidence.k # "missing" /\ block.reasoning
KnownLabels == {"RESEARCH", "coding", "Writing", "data_analysis", "GENERAL"}

\* C21: whatever the backend answered, the confidence stored by the Router
\* from the classifier lies in [0,1]; when the output has no block or its
\* confidence is missing or not a number, or the backend raised, it is 0.1
\* or 0.2.
C21_ConfidenceInUnitInterval ==
  pc = "process_request" =>
    /\ state.intent_confidence \in 0..1000
    /\ Last(state.handoff_history).confidence \in 0..1000
    /\ (RawBlock = NoBlock \/ RawBlock.confidence.k # "num") =>
         state.intent_confidence \in {100, 200}

\* An out-of-range confidence was clamped to 1.
C21_Witness ==
  /\ pc = "process_request"
  /\ RawBlock # NoBlock
  /\ RawBlock.confidence = Num(1500)
  /\ RawBlock.intent \in KnownLabels
  /\ state.intent_confidence = 1000

\* The backend answered one block with a label outside the closed set and a
\* confidence in [0,1].
C22_UnknownLabelReported ==
  /\ pc = "process_request"
  /\ turn.backend.kind = "text"
  /\ turn.backend.text = <<LB, RawBlock, RB>>
  /\ HasAllKeys(RawBlock)
  /\ RawBlock.intent \notin KnownLabels
  /\ RawBlock.confidence.k = "num"
  /\ RawBlock.confidence.v \in 0..1000

\* C22 as claimed: for an unknown label with reported confidence c in [0,1]
\* the target is the Router, the reasoning carries the unknown-intent note
\* and the confidence is at most 0.5 x c.
C22_AtMostHalf ==
  C22_UnknownLabelReported =>
    /\ Last(state.handoff_history).to_agent = SUPERVISOR
    /\ Last(state.handoff_history).reasoning = "model+unknown_intent"
    /\ 2 * state.intent_confidence <= RawBlock.confidence.v

\* C22 as amended: the confidence is max(0.1, 0.5 x c), that is 0.5 x c from
\* c = 0.2 on and 0.1 below.
C22_HalfWithFloor ==
  C22_UnknownLabelReported =>
    /\ Last(state.handoff_history).to_agent = SUPERVISOR
    /\ Last(state.handoff_history).reasoning = "model+unknown_intent"
    /\ IF RawBlock.confidence.v >= 200
       THEN 2 * state.intent_confidence = RawBlock.confidence.v
       ELSE state.intent_confidence = 100

\* A reported 0.4 was halved.
C22_Witness ==
  /\ C22_UnknownLabelReported
  /\ RawBlock.confidence.v = 400
  /\ state.intent_confidence = 200
  /\ state.current_agent = SUPERVISOR

\* The backend's text holds no well-formed block, or its first block lacks
\* one of the keys intent, confidence, reasoning.
C23_NothingToParse ==
  /\ pc = "process_request"
  /\ turn.backend.kind = "text"
  /\ RawBlock = NoBlock \/ ~HasAllKeys(RawBlock)

\* C23: on such a text the classifier raises nothing and returns the
\* catch-all intent, the Router as target and a confidence of at most 0.2,
\* and the Router handles the request locally, degraded or not.
C23_ParseFailureHandledLocally ==
  C23_NothingToParse =>
    /\ turn.classified = 1
    /\ state.detected_intent = "general"
    /\ Last(state.handoff_history).to_agent = SUPERVISOR
    /\ state.intent_confidence <= 200
    /\ turn.decided = "local"
    /\ turn.invoked = <<SUPERVISOR>>
    /\ state.final_response.by = SUPERVISOR

\* Unparseable text met a degraded state whose input the specialists accept.
C23_Witness ==
  /\ C23_NothingToParse
  /\ RawBlock = NoBlock
  /\ turn.backend.text # <<>>
  /\ turn.d_degraded
  /\ state.current_user_input.kw = Specialists

\* C24 as claimed: a turn run through the graph executes the Router's
\* processing at most once and at most one invocation of one specialist's
\* processing before it ends.
C24_AtMostOneHandlerStep ==
  Returned =>
    /\ turn.classified <= 1
    /\ Cardinality({i \in 1..Len(turn.invoked) : turn.invoked[i] # SUPERVISOR}) <= 1

\* C25: reset_for_new_input(x) sets current_user_input to x, current_agent
\* to the Router, detected_intent to none, intent_confidence to 0,
\* should_continue to true, final_response to none and empties task_context
\* and intermediate_results; it leaves messages, handoff_history,
\* error_count, last_error and fallback_mode as they were.
C25_ResetFrame ==
  [][pc' = "reset_for_new_input" =>
       /\ state'.current_user_input = turn'.user_input
       /\ state'.current_agent = SUPERVISOR
       /\ state'.detected_intent = "None"
       /\ state'.intent_confidence = 0
       /\ state'.should_continue
       /\ state'.final_response = None
       /\ state'.task_context = EmptyDict
       /\ state'.intermediate_results = EmptyDict
       /\ state'.messages = state.messages
       /\ state'.handoff_history = state.handoff_history
       /\ state'.error_count = state.error_count
       /\ state'.last_error = state.last_error
       /\ state'.fallback_mode = state.fallback_mode]_vars

\* A reset after a request that a specialist had answered on a degraded
\* state: the ledger, the messages and the error fields are still there.
C25_Witness ==
  /\ pc = "reset_for_new_input"
  /\ state.handoff_history # <<>>
  /\ Last(state.handoff_history).to_agent = "code"
  /\ Len(state.messages) >= 2
  /\ state.error_count > 0
  /\ state.fallback_mode
  /\ state.final_response = None
  /\ state.task_context = EmptyDict

\* C26 as claimed: when the text holds a well-formed block with the three
\* keys, the classification is that of the first such block, whatever
\* follows it in the text.
C26_FirstBlockUsed ==
  (/\ pc = "process_request"
   /\ RawBlock # NoBlock
   /\ HasAllKeys(RawBlock)
   /\ RawBlock.confidence.k = "num"
   /\ RawBlock.intent \in KnownLabels) =>
    /\ state.detected_intent = RawBlock.intent
    /\ state.intent_confidence =
         IF RawBlock.confidence.v > 1000 THEN 1000
         ELSE IF RawBlock.confidence.v < 0 THEN 0 ELSE RawBlock.confidence.v

\* C27 as claimed: get_conversation_context(N) renders the min(N, number of
\* messages) most recent messages, oldest first, each with its role and its
\* handler, and never more than N.
C27_WindowOfRecentMessages ==
  pc = "get_conversation_context" =>
    LET n == Len(state.messages)
        k == IF turn.max_messages < n THEN turn.max_messages ELSE n
    IN /\ Len(turn.context) = k
       /\ \A i \in 1..k : turn.context[i] = ContextLine(state.messages[n - k + i])

\* C28: in a turn started by process_user_input, fallback_mode is false when
\* the Router decides, so a specialist is dispatched only at a confidence of
\* at least 0.7, whatever errors earlier turns produced.
C28_FreshTurnNotDegraded ==
  (driver = "cli" /\ turn.decided # "none") =>
    /\ ~turn.d_degraded
    /\ turn.decided = "dispatch" => turn.d_confidence >= 700

\* After a turn that left the controller above the full level, a registered
\* specialist classified at medium confidence was not dispatched.
C28_Witness ==
  /\ driver = "cli"
  /\ current_level # "full"
  /\ turn.decided = "local"
  /\ turn.d_target \in Specialists
  /\ turn.d_target \in turn.d_available
  /\ turn.d_confidence >= 500
  /\ turn.d_confidence < 700

\* C29: a process_user_input turn returns with error_count below 6, so the
\* level applied to its result is never minimal and the minimal message is
\* never the response of a CLI turn.
C29_NeverMinimalInCli ==
  driver = "cli" =>
    /\ state.error_count < 6
    /\ current_level # "minimal"
    /\ state.final_response # MinimalResponse

\* The most a turn collects: two handler failures and the missing response.
C29_Witness ==
  /\ driver = "cli"
  /\ pc = "idle"
  /\ turn.failed # <<>>
  /\ state.error_count = 3
  /\ state.final_response = NoResponseApology
  /\ current_level = "basic"

\* C30 as claimed: once the CLI has processed a turn, current_level is the
\* level determine_degradation_level gives for that turn's final state.
C30_LevelOfLastTurn ==
  (driver = "cli" /\ pc = "idle") =>
    current_level = determine_degradation_level(state)

====
